---- MODULE Spec2Model ----
(***************************************************************************)
(* A model of src/src/Stryker.ts: the Stryker constructor and the promise  *)
(* chain of Stryker.runMutationTest, with the baseline gate                *)
(* (filterOutUnsuccesfulResults, logInitialTestRunSucceeded,               *)
(* logFailedTests).                                                        *)
(*                                                                         *)
(* JavaScript values are modelled as follows.                              *)
(*   - a string is the sequence of its UTF-16 code units;                  *)
(*   - an optional number (RunResult.failed, RunResult.succeeded) is <<>>  *)
(*     when undefined and <<n>> when it is the number n;                   *)
(*   - an array is a sequence.                                             *)
(***************************************************************************)
EXTENDS Integers, Sequences, FiniteSets, TLC

VARIABLES
    pc,             \* position of the coordinator in constructor / promise chain
    config,         \* this.config
    registry,       \* ConfigWriterFactory.instance().knownNames(), in order
    frozenConfig,   \* the configuration as freezeConfig left it
    inputFiles,     \* what InputFileResolver.resolve() resolved with
    runResults,     \* what initialRun() resolved with
    unsuccessfulTests, \* what filterOutUnsuccesfulResults returned at the gate
    generatorInput, \* the paths generateMutants was called with
    mutants,        \* what generateMutants returned
    matcherInput,   \* the run results handed to MutantRunResultMatcher
    mutantResults,  \* what runMutations resolved with
    wrapUpState,    \* what reporter.wrapUp() returned and whether it settled
    outcome,        \* the promise returned by runMutationTest
    logged,         \* the log4js entries written, in order
    trace           \* the calls into collaborators and their returns, in order

vars == <<pc, config, registry, frozenConfig, inputFiles, runResults,
          unsuccessfulTests, generatorInput, mutants, matcherInput, mutantResults,
          wrapUpState, outcome, logged, trace>>

----------------------------------------------------------------------------
(* Bounds *)

MaxRuns == 2        \* run results in one baseline result list
MaxTexts == 1       \* strings (test names and error messages) one run carries
MaxFiles == 2       \* resolved input files
MaxMutants == 2     \* mutants the generator returns

----------------------------------------------------------------------------
(* JavaScript values *)

Undefined == <<>>
Num(n) == <<n>>

\* ToBoolean of an optional number: undefined and 0 are falsy.
Truthy(x) == x # Undefined /\ x[1] # 0

\* The strings of the model: "ab" and "b" as code-unit sequences (the longer
\* one sorts first).
StrAB == <<97, 98>>
StrB == <<98>>
Strings == {StrAB, StrB}

SeqsUpTo(S, n) == UNION {[1..k -> S] : k \in 0..n}

\* x < y as Array.prototype.sort's default comparator orders two strings:
\* by the first differing code unit, a proper prefix first.
StringLess(x, y) ==
    \E i \in 1..(Len(y)) :
        /\ \A j \in 1..(i - 1) : j <= Len(x) /\ x[j] = y[j]
        /\ \/ i = Len(x) + 1
           \/ i <= Len(x) /\ x[i] < y[i]

RECURSIVE InsertSorted(_, _)
InsertSorted(x, s) ==
    IF s = <<>> THEN <<x>>
    ELSE IF StringLess(Head(s), x) \/ Head(s) = x
         THEN <<Head(s)>> \o InsertSorted(x, Tail(s))
         ELSE <<x>> \o s

\* Array.prototype.sort() with the default comparator, on an array of strings.
RECURSIVE Sort(_)
Sort(s) == IF s = <<>> THEN <<>> ELSE InsertSorted(Head(s), Sort(Tail(s)))

\* _.flatten: one level.
RECURSIVE Flatten(_)
Flatten(ss) == IF ss = <<>> THEN <<>> ELSE Head(ss) \o Flatten(Tail(ss))

Elems(s) == {s[i] : i \in 1..Len(s)}

\* _.uniq: the first occurrence of every value, in order.
RECURSIVE Uniq(_)
Uniq(s) ==
    IF s = <<>> THEN <<>>
    ELSE LET front == Uniq(SubSeq(s, 1, Len(s) - 1))
             last == s[Len(s)]
         IN  IF last \in Elems(front) THEN front ELSE Append(front, last)

----------------------------------------------------------------------------
(* Run results of the baseline run (RunResult of stryker-api/test_runner) *)

TestResults == {"Complete", "Error", "Timeout"}

RunResult(result, succeeded, failed, testNames, errorMessages) ==
    [result |-> result, succeeded |-> succeeded, failed |-> failed,
     testNames |-> testNames, errorMessages |-> errorMessages]

\* The run results the gate is checked on: every status; a failed-count of 0
\* or 1 on a Complete run and of 0 on a run that did not complete; at most
\* MaxTexts strings shared out between the test names and the error
\* messages; and, for every status, the bare { result: ... } with no counts
\* and no strings.
GateRuns ==
    {run \in {RunResult(r, Num(1), f, tn, em) :
                 r \in TestResults, f \in {Num(0), Num(1)},
                 tn \in SeqsUpTo(Strings, MaxTexts),
                 em \in SeqsUpTo(Strings, MaxTexts)} :
        /\ Len(run.testNames) + Len(run.errorMessages) <= MaxTexts
        /\ run.failed = Num(1) => run.result = "Complete"}
    \cup {RunResult(r, Undefined, Undefined, <<>>, <<>>) : r \in TestResults}

\* The predicate of line 91 without the failed-count.
IsUnsuccessfulOnlyByStatus(runResult) == runResult.result # "Complete"

\* line 91: the predicate of filterOutUnsuccesfulResults.
IsUnsuccessful(runResult) ==
    ~(~Truthy(runResult.failed) /\ runResult.result = "Complete")

\* lines 90-92
filterOutUnsuccesfulResults(results) == SelectSeq(results, IsUnsuccessful)

\* lines 134-140, without _.uniq
failedSpecNamesNoUniq(unsuccessful) ==
    LET complete == SelectSeq(unsuccessful, LAMBDA r : r.result = "Complete")
    IN  Sort(Flatten([i \in 1..Len(complete) |-> complete[i].testNames]))

\* lines 134-140
failedSpecNames(unsuccessful) ==
    LET complete == SelectSeq(unsuccessful, LAMBDA r : r.result = "Complete")
    IN  Sort(Uniq(Flatten([i \in 1..Len(complete) |-> complete[i].testNames])))

\* lines 147-151
errors(unsuccessful) ==
    LET errored == SelectSeq(unsuccessful, LAMBDA r : r.result = "Error")
    IN  Sort(Flatten([i \in 1..Len(errored) |-> errored[i].errorMessages]))

\* A run result after logFailedTests, had .sort() been called on its own
\* testNames and errorMessages arrays.
sortedInPlaceOwn(run) ==
    [run EXCEPT !.testNames = Sort(@), !.errorMessages = Sort(@)]

\* lines 134-151: a run result after logFailedTests. Array.prototype.sort
\* sorts in place, and it is called on the array _.uniq returned (line 140)
\* and on the array _.flatten returned (line 151), both new arrays: the
\* arrays of the run result stay as they are.
sortedInPlace(run) == run

\* A log4js entry: the level, the first line of the message and the values
\* the message lists after it (one "\n\t<value>" each, or the %s arguments).
LogEntry(level, text, items) == [level |-> level, text |-> text, items |-> items]

FailedTestsText == "One or more tests failed in the inial test run:"
ErroredTestsText == "One or more tests errored in the initial test run:"
SucceededText == "Initial test run succeeded. Ran %s tests."
GeneratedText == "Mutant(s) generated"

\* lines 133-158: the entries logFailedTests writes.
logFailedTests(unsuccessful) ==
    (IF Len(failedSpecNames(unsuccessful)) > 0
     THEN <<LogEntry("error", FailedTestsText, failedSpecNames(unsuccessful))>>
     ELSE <<>>)
    \o
    (IF Len(errors(unsuccessful)) > 0
     THEN <<LogEntry("error", ErroredTestsText, errors(unsuccessful))>>
     ELSE <<>>)

\* lines 114-119 with = for +=: the last truthy succeeded count.
RECURSIVE totalAmountOfTestsLast(_)
totalAmountOfTestsLast(results) ==
    IF results = <<>> THEN 0
    ELSE IF Truthy(results[Len(results)].succeeded)
         THEN results[Len(results)].succeeded[1]
         ELSE totalAmountOfTestsLast(SubSeq(results, 1, Len(results) - 1))

\* lines 114-119: the sum of the truthy succeeded counts.
RECURSIVE totalAmountOfTests(_)
totalAmountOfTests(results) ==
    IF results = <<>> THEN 0
    ELSE (IF Truthy(Head(results).succeeded) THEN Head(results).succeeded[1] ELSE 0)
         + totalAmountOfTests(Tail(results))

\* lines 113-121: the entry logInitialTestRunSucceeded writes.
logInitialTestRunSucceeded(results) ==
    <<LogEntry("info", SucceededText, <<totalAmountOfTests(results)>>)>>

----------------------------------------------------------------------------
(* Configuration (lines 36-44, 94-111) *)

WriterNames == {"karma", "mocha"}

NoWrites == [w \in WriterNames |-> 0]

\* A configuration: the options the model follows, how often each config
\* writer has changed it, and whether it is frozen.
Config(logLevel, plugins) ==
    [logLevel |-> logLevel, plugins |-> plugins, written |-> NoWrites, frozen |-> FALSE]

\* What configReader.readConfig() may return (line 38).
ReadConfigs ==
    {Config(l, p) : l \in {"info", "debug"},
                    p \in {Undefined, <<"karma">>, <<"mocha", "karma">>}}

NoConfig == Config("", Undefined)

\* ConfigWriter.write(config) of writer w: a change of the configuration,
\* which a frozen object does not take.
write(cfg, w) ==
    IF cfg.frozen THEN cfg ELSE [cfg EXCEPT !.written[w] = @ + 1]

\* freezeRecursively(config)
freezeRecursively(cfg) == [cfg EXCEPT !.frozen = TRUE]

\* lines 94-98: loading a plugin registers its config writer; the registry
\* after loadPlugins.
RECURSIVE register(_, _)
register(reg, names) ==
    IF names = <<>> THEN reg
    ELSE register(IF Head(names) \in Elems(reg) THEN reg ELSE Append(reg, Head(names)),
                  Tail(names))

loadPlugins(cfg, reg) ==
    IF cfg.plugins # Undefined THEN register(reg, cfg.plugins) ELSE reg

\* lines 100-104: write(this.config) of every known writer, in order.
RECURSIVE applyConfigWriters(_, _)
applyConfigWriters(cfg, knownNames) ==
    IF knownNames = <<>> THEN cfg
    ELSE applyConfigWriters(write(cfg, Head(knownNames)), Tail(knownNames))

UsingConfigText == "Using config:"

\* lines 106-111: the entries freezeConfig logs (log.isDebugEnabled()).
freezeConfigLog(cfg) ==
    IF cfg.logLevel = "debug" THEN <<LogEntry("debug", UsingConfigText, <<>>)>> ELSE <<>>

Ev(op, ev) == <<op, ev>>

writeEvents(knownNames) == [i \in 1..Len(knownNames) |-> Ev("write", knownNames[i])]

\* The constructor with freezeConfig before applyConfigWriters.
constructorFreezeFirst(cfg, reg) ==
    LET knownNames == loadPlugins(cfg, reg)
        frozen == freezeRecursively(cfg)
    IN  [config |-> applyConfigWriters(frozen, knownNames),
         registry |-> knownNames,
         logged |-> freezeConfigLog(frozen),
         trace |-> <<Ev("readConfig", "return"), Ev("setGlobalLogLevel", cfg.logLevel),
                     Ev("loadPlugins", "return"), Ev("freezeConfig", "return")>>
                   \o writeEvents(knownNames)
                   \o <<Ev("setGlobalLogLevel", cfg.logLevel)>>]

\* lines 36-44: the constructor, given what readConfig returned and the
\* writers known before: the configuration, the registry, the log entries
\* and the calls it leaves.
constructor(cfg, reg) ==
    LET knownNames == loadPlugins(cfg, reg)
        written == applyConfigWriters(cfg, knownNames)
    IN  [config |-> freezeRecursively(written),
         registry |-> knownNames,
         logged |-> freezeConfigLog(written),
         trace |-> <<Ev("readConfig", "return"), Ev("setGlobalLogLevel", cfg.logLevel),
                     Ev("loadPlugins", "return")>>
                   \o writeEvents(knownNames)
                   \o <<Ev("setGlobalLogLevel", written.logLevel),
                        Ev("freezeConfig", "return")>>]

----------------------------------------------------------------------------
(* What the collaborators of runMutationTest may hand back *)

InputFile(path, shouldMutate) == [path |-> path, shouldMutate |-> shouldMutate]

\* InputFileResolver.resolve(): the resolved files, in order, each file once.
FilePool == {InputFile("src/a.js", TRUE), InputFile("src/b.js", TRUE),
             InputFile("test/a.js", FALSE)}
InputFileLists ==
    {files \in SeqsUpTo(FilePool, MaxFiles) :
        \A i, j \in 1..Len(files) : files[i] = files[j] => i = j}

\* initialRun(): the run results of the pipeline runs. Two clean runs (one
\* with counts, one bare), a run with a failed test, an errored run and a
\* timed-out run.
BaselinePool ==
    {RunResult("Complete", Num(2), Num(0), <<StrB, StrAB>>, <<>>),
     RunResult("Complete", Undefined, Undefined, <<>>, <<>>),
     RunResult("Complete", Num(1), Num(1), <<StrB, StrAB>>, <<>>),
     RunResult("Error", Undefined, Undefined, <<>>, <<StrB>>),
     RunResult("Timeout", Undefined, Undefined, <<>>, <<>>)}
BaselineLists == SeqsUpTo(BaselinePool, MaxRuns)

\* generateMutants(): the mutants, in generation order.
Mutant(id) == [id |-> id]
MutantLists == {[i \in 1..n |-> Mutant(i)] : n \in 0..MaxMutants}

\* runMutations(mutants): a result for every mutant, in order.
MutantStatuses == {"Killed", "Survived", "NoCoverage"}
MutantResult(id, status) == [mutant |-> id, status |-> status]
\* runMutations losing the result of the last mutant.
MutantResultListsDropLast(ms) ==
    {[i \in 1..(Len(ms) - 1) |-> MutantResult(ms[i].id, st[i])] :
        st \in [1..Len(ms) -> MutantStatuses]}

MutantResultLists(ms) ==
    {[i \in 1..Len(ms) |-> MutantResult(ms[i].id, st[i])] :
        st \in [1..Len(ms) -> MutantStatuses]}

\* What the promise of reporter.wrapUp() may resolve with.
WrapUpValues == {Undefined, <<MutantResult(0, "Survived")>>}

\* The promise runMutationTest returns.
Pending == [state |-> "pending", value |-> <<>>, error |-> ""]
Resolved(v) == [state |-> "resolved", value |-> v, error |-> ""]
Rejected(e) == [state |-> "rejected", value |-> <<>>, error |-> e]

InitialRunFailed == "There were failed tests in the initial test run"

\* isPromise(maybePromise) of utils/objectUtils, on what wrapUp returned.
isPromise(returned) == returned = "promise"

\* line 64 with the condition inverted.
gatePassesInverted(unsuccessful) == Len(unsuccessful) # 0

\* The gate that lets every baseline run pass.
gatePassesAlways(unsuccessful) == TRUE

\* line 64
gatePasses(unsuccessful) == Len(unsuccessful) = 0

\* lines 67-69 without the filter: the paths of all input files.
mutatedPathsAll(files) == [i \in 1..Len(files) |-> files[i].path]

\* lines 67-69: the paths of the files to mutate.
mutatedPaths(files) ==
    LET targets == SelectSeq(files, LAMBDA f : f.shouldMutate)
    IN  [i \in 1..Len(targets) |-> targets[i].path]

----------------------------------------------------------------------------
(* The constructor and the promise chain *)

Init ==
    /\ pc = "new"
    /\ config = NoConfig
    /\ registry = <<>>
    /\ frozenConfig = NoConfig
    /\ inputFiles = <<>>
    /\ runResults = <<>>
    /\ unsuccessfulTests = <<>>
    /\ generatorInput = <<>>
    /\ mutants = <<>>
    /\ matcherInput = <<>>
    /\ mutantResults = <<>>
    /\ wrapUpState = "notCalled"
    /\ outcome = [state |-> "none", value |-> <<>>, error |-> ""]
    /\ logged = <<>>
    /\ trace = <<>>

runVars == <<inputFiles, runResults, unsuccessfulTests, generatorInput, mutants,
             matcherInput, mutantResults, wrapUpState>>

\* lines 36-44: new Stryker(options).
Constructor ==
    /\ pc = "new"
    /\ \E cfg \in ReadConfigs :
        LET built == constructor(cfg, registry)
        IN  /\ config' = built.config
            /\ frozenConfig' = built.config
            /\ registry' = built.registry
            /\ logged' = logged \o built.logged
            /\ trace' = trace \o built.trace
    /\ pc' = "constructed"
    /\ UNCHANGED <<runVars, outcome>>

\* A collaborator that was handed this.config tries to change it.
collaboratorWrites(cfg) == {write(cfg, w) : w \in WriterNames} \cup {cfg}

\* lines 50-54, with resolve() called before the input files are known and
\* initialRun() started at once.
RunMutationTestEager ==
    /\ pc = "constructed"
    /\ config' \in collaboratorWrites(config)
    /\ outcome' = Pending
    /\ trace' = trace \o <<Ev("resolve", "call"), Ev("initialRun", "call")>>
    /\ pc' = "resolving"
    /\ UNCHANGED <<registry, frozenConfig, runVars, logged>>

\* lines 50-54: the reporter and the test selector are created from the
\* configuration, resolve() is called and the chain is returned.
RunMutationTest ==
    /\ pc = "constructed"
    /\ config' \in collaboratorWrites(config)
    /\ outcome' = Pending
    /\ trace' = trace \o <<Ev("resolve", "call")>>
    /\ pc' = "resolving"
    /\ UNCHANGED <<registry, frozenConfig, runVars, logged>>

\* InputFileResolver.resolve() settles: it resolves with the input files, or
\* it rejects and the chain passes the rejection on (no then has a handler
\* for it).
ResolveSettles ==
    /\ pc = "resolving"
    /\ \/ \E files \in InputFileLists :
            /\ inputFiles' = files
            /\ trace' = Append(trace, Ev("resolve", "resolved"))
            /\ pc' = "resolved"
            /\ UNCHANGED outcome
       \/ /\ trace' = Append(trace, Ev("resolve", "rejected"))
          /\ outcome' = Rejected("resolve")
          /\ pc' = "done"
          /\ UNCHANGED inputFiles
    /\ UNCHANGED <<config, registry, frozenConfig, runResults, unsuccessfulTests,
                   generatorInput, mutants,
                   matcherInput, mutantResults, wrapUpState, logged>>

\* lines 55-58: the test runner orchestrator is created and initialRun()
\* called; a throw in the callback rejects the chain.
StartInitialRun ==
    /\ pc = "resolved"
    /\ config' \in collaboratorWrites(config)
    /\ \/ /\ trace' = Append(trace, Ev("initialRun", "call"))
          /\ pc' = "initialRun"
          /\ UNCHANGED outcome
       \/ /\ trace' = trace \o <<Ev("initialRun", "call"), Ev("initialRun", "threw")>>
          /\ outcome' = Rejected("initialRun")
          /\ pc' = "done"
    /\ UNCHANGED <<registry, frozenConfig, runVars, logged>>

\* initialRun() settling, with the reporter wrapped up when it rejects.
InitialRunSettlesWrapsUp ==
    /\ pc = "initialRun"
    /\ \/ \E results \in BaselineLists :
            /\ runResults' = results
            /\ trace' = Append(trace, Ev("initialRun", "resolved"))
            /\ pc' = "gate"
            /\ UNCHANGED <<outcome, wrapUpState>>
       \/ /\ trace' = trace \o <<Ev("initialRun", "rejected"), Ev("wrapUp", "call"),
                                 Ev("wrapUp", "return")>>
          /\ wrapUpState' = "returned"
          /\ outcome' = Rejected("initialRun")
          /\ pc' = "done"
          /\ UNCHANGED runResults
    /\ UNCHANGED <<config, registry, frozenConfig, inputFiles, unsuccessfulTests,
                   generatorInput, mutants, matcherInput, mutantResults, logged>>

\* initialRun() settling, with a rejected baseline run started once more.
InitialRunSettlesRetry ==
    /\ pc = "initialRun"
    /\ \/ \E results \in BaselineLists :
            /\ runResults' = results
            /\ trace' = Append(trace, Ev("initialRun", "resolved"))
            /\ pc' = "gate"
            /\ UNCHANGED outcome
       \/ /\ ~(\E i \in 1..Len(trace) : trace[i] = Ev("initialRun", "rejected"))
          /\ trace' = trace \o <<Ev("initialRun", "rejected"), Ev("initialRun", "call")>>
          /\ UNCHANGED <<pc, outcome, runResults>>
    /\ UNCHANGED <<config, registry, frozenConfig, inputFiles, unsuccessfulTests,
                   generatorInput, mutants, matcherInput, mutantResults, wrapUpState,
                   logged>>

\* initialRun() settles: it resolves with the run results, or it rejects and
\* the chain passes the rejection on.
InitialRunSettles ==
    /\ pc = "initialRun"
    /\ \/ \E results \in BaselineLists :
            /\ runResults' = results
            /\ trace' = Append(trace, Ev("initialRun", "resolved"))
            /\ pc' = "gate"
            /\ UNCHANGED outcome
       \/ /\ trace' = Append(trace, Ev("initialRun", "rejected"))
          /\ outcome' = Rejected("initialRun")
          /\ pc' = "done"
          /\ UNCHANGED runResults
    /\ UNCHANGED <<config, registry, frozenConfig, inputFiles, unsuccessfulTests,
                   generatorInput, mutants,
                   matcherInput, mutantResults, wrapUpState, logged>>

GeneratedLog(ms) == <<LogEntry("info", GeneratedText, <<Len(ms)>>)>>

\* lines 59-79: the baseline gate. With no unsuccessful run the mutants are
\* generated, matched with the run results and run; otherwise the failures
\* are logged and the callback throws.
BaselineGate ==
    /\ pc = "gate"
    /\ unsuccessfulTests' = filterOutUnsuccesfulResults(runResults)
    /\ LET unsuccessful == filterOutUnsuccesfulResults(runResults)
       IN  IF gatePasses(unsuccessful)
           THEN /\ generatorInput' = mutatedPaths(inputFiles)
                /\ \/ /\ trace' = trace \o <<Ev("generateMutants", "call"),
                                             Ev("generateMutants", "threw")>>
                      /\ logged' = logged \o logInitialTestRunSucceeded(runResults)
                      /\ outcome' = Rejected("generateMutants")
                      /\ pc' = "done"
                      /\ UNCHANGED <<mutants, matcherInput>>
                   \/ \E ms \in MutantLists :
                        /\ mutants' = ms
                        /\ matcherInput' = runResults
                        /\ logged' = logged \o logInitialTestRunSucceeded(runResults)
                                            \o GeneratedLog(ms)
                        /\ \/ /\ trace' = trace \o <<Ev("generateMutants", "call"),
                                                     Ev("generateMutants", "return"),
                                                     Ev("matchWithMutants", "call"),
                                                     Ev("matchWithMutants", "threw")>>
                              /\ outcome' = Rejected("matchWithMutants")
                              /\ pc' = "done"
                           \/ /\ trace' = trace \o <<Ev("generateMutants", "call"),
                                                     Ev("generateMutants", "return"),
                                                     Ev("matchWithMutants", "call"),
                                                     Ev("matchWithMutants", "return"),
                                                     Ev("runMutations", "call"),
                                                     Ev("runMutations", "threw")>>
                              /\ outcome' = Rejected("runMutations")
                              /\ pc' = "done"
                           \/ /\ trace' = trace \o <<Ev("generateMutants", "call"),
                                                     Ev("generateMutants", "return"),
                                                     Ev("matchWithMutants", "call"),
                                                     Ev("matchWithMutants", "return"),
                                                     Ev("runMutations", "call")>>
                              /\ pc' = "runMutations"
                              /\ UNCHANGED outcome
           ELSE /\ logged' = logged \o logFailedTests(unsuccessful)
                /\ outcome' = Rejected(InitialRunFailed)
                /\ pc' = "done"
                /\ UNCHANGED <<trace, generatorInput, mutants, matcherInput>>
    /\ runResults' =
          IF gatePasses(filterOutUnsuccesfulResults(runResults))
          THEN runResults
          ELSE [i \in 1..Len(runResults) |->
                  IF IsUnsuccessful(runResults[i])
                  THEN sortedInPlace(runResults[i]) ELSE runResults[i]]
    /\ UNCHANGED <<config, registry, frozenConfig, inputFiles,
                   mutantResults, wrapUpState>>

\* The chain with a rejection of runMutations swallowed: it goes on to wrapUp
\* with no results.
RunMutationsSettlesSwallowed ==
    /\ pc = "runMutations"
    /\ \/ \E results \in MutantResultLists(mutants) :
            /\ mutantResults' = results
            /\ trace' = Append(trace, Ev("runMutations", "resolved"))
       \/ /\ mutantResults' = <<>>
          /\ trace' = Append(trace, Ev("runMutations", "rejected"))
    /\ pc' = "wrapUp"
    /\ UNCHANGED <<config, registry, frozenConfig, inputFiles, runResults,
                   unsuccessfulTests, generatorInput,
                   mutants, matcherInput, wrapUpState, logged, outcome>>

\* runMutations(mutants) settles: it resolves with the mutant results, or it
\* rejects and the chain passes the rejection on.
RunMutationsSettles ==
    /\ pc = "runMutations"
    /\ \/ \E results \in MutantResultLists(mutants) :
            /\ mutantResults' = results
            /\ trace' = Append(trace, Ev("runMutations", "resolved"))
            /\ pc' = "wrapUp"
            /\ UNCHANGED outcome
       \/ /\ trace' = Append(trace, Ev("runMutations", "rejected"))
          /\ outcome' = Rejected("runMutations")
          /\ pc' = "done"
          /\ UNCHANGED mutantResults
    /\ UNCHANGED <<config, registry, frozenConfig, inputFiles, runResults,
                   unsuccessfulTests, generatorInput,
                   mutants, matcherInput, wrapUpState, logged>>

\* What lines 82-86 do with a promise: returned as it is, the chain resolves
\* without waiting for it.
afterWrapUpNoWait(returned) == "done"

\* lines 82-86: a promise is waited for, anything else is not.
afterWrapUp(returned) == IF isPromise(returned) THEN "awaitWrapUp" ELSE "done"

\* lines 80-87: reporter.wrapUp() is called; it throws, or returns a promise
\* or something else.
WrapUp ==
    /\ pc = "wrapUp"
    /\ \/ /\ trace' = trace \o <<Ev("wrapUp", "call"), Ev("wrapUp", "threw")>>
          /\ wrapUpState' = "threw"
          /\ outcome' = Rejected("wrapUp")
          /\ pc' = "done"
       \/ \E returned \in {"promise", "undefined"} :
            /\ trace' = trace \o <<Ev("wrapUp", "call"), Ev("wrapUp", "return")>>
            /\ wrapUpState' = IF returned = "promise" THEN "pending" ELSE "returned"
            /\ pc' = afterWrapUp(returned)
            /\ outcome' = IF pc' = "done" THEN Resolved(mutantResults) ELSE outcome
    /\ UNCHANGED <<config, registry, frozenConfig, inputFiles, runResults,
                   unsuccessfulTests, generatorInput,
                   mutants, matcherInput, mutantResults, logged>>

\* line 83 with the value of the wrapUp promise passed through.
wrapUpThenPassThrough(value, results) == value

\* line 83: () => mutantResults
wrapUpThen(value, results) == results

\* The wrapUp promise settling, with its rejection caught: the chain resolves
\* with the mutant results all the same.
WrapUpSettlesCaught ==
    /\ wrapUpState = "pending"
    /\ \/ \E value \in WrapUpValues :
            /\ wrapUpState' = "resolved"
            /\ trace' = Append(trace, Ev("wrapUp", "resolved"))
       \/ /\ wrapUpState' = "rejected"
          /\ trace' = Append(trace, Ev("wrapUp", "rejected"))
    /\ outcome' = IF pc = "awaitWrapUp" THEN Resolved(mutantResults) ELSE outcome
    /\ pc' = "done"
    /\ UNCHANGED <<config, registry, frozenConfig, inputFiles, runResults,
                   unsuccessfulTests, generatorInput,
                   mutants, matcherInput, mutantResults, logged>>

\* The promise of reporter.wrapUp() settles. While the chain waits for it,
\* the chain settles with it; the promise settles no matter who waits.
WrapUpSettles ==
    /\ wrapUpState = "pending"
    /\ \/ \E value \in WrapUpValues :
            /\ wrapUpState' = "resolved"
            /\ trace' = Append(trace, Ev("wrapUp", "resolved"))
            /\ outcome' = IF pc = "awaitWrapUp"
                          THEN Resolved(wrapUpThen(value, mutantResults)) ELSE outcome
       \/ /\ wrapUpState' = "rejected"
          /\ trace' = Append(trace, Ev("wrapUp", "rejected"))
          /\ outcome' = IF pc = "awaitWrapUp" THEN Rejected("wrapUp") ELSE outcome
    /\ pc' = "done"
    /\ UNCHANGED <<config, registry, frozenConfig, inputFiles, runResults,
                   unsuccessfulTests, generatorInput,
                   mutants, matcherInput, mutantResults, logged>>

Next ==
    \/ Constructor
    \/ RunMutationTest
    \/ ResolveSettles
    \/ StartInitialRun
    \/ InitialRunSettles
    \/ BaselineGate
    \/ RunMutationsSettles
    \/ WrapUp
    \/ WrapUpSettles

Spec == Init /\ [][Next]_vars

----------------------------------------------------------------------------
(* The baseline gate on its own: the chain after initialRun() resolved, for
   every list of run results of GateRuns and of the pipeline. *)

GateConfig == Config("info", <<"karma">>)
GateFiles == <<InputFile("src/a.js", TRUE), InputFile("test/a.js", FALSE)>>

InitGate ==
    /\ pc = "gate"
    /\ config = constructor(GateConfig, <<>>).config
    /\ registry = constructor(GateConfig, <<>>).registry
    /\ frozenConfig = config
    /\ inputFiles = GateFiles
    /\ \/ \E n \in 0..MaxRuns : runResults \in [1..n -> GateRuns]
       \/ runResults \in BaselineLists
    /\ unsuccessfulTests = <<>>
    /\ generatorInput = <<>>
    /\ mutants = <<>>
    /\ matcherInput = <<>>
    /\ mutantResults = <<>>
    /\ wrapUpState = "notCalled"
    /\ outcome = Pending
    /\ logged = constructor(GateConfig, <<>>).logged
    /\ trace = constructor(GateConfig, <<>>).trace
               \o <<Ev("resolve", "call"), Ev("resolve", "resolved"),
                    Ev("initialRun", "call"), Ev("initialRun", "resolved")>>

NextGate == BaselineGate

SpecGate == InitGate /\ [][NextGate]_vars

----------------------------------------------------------------------------
(* What the claims are stated with *)

InTrace(e) == \E i \in 1..Len(trace) : trace[i] = e

\* The callback of lines 59-79 has run.
GateRan == InTrace(Ev("initialRun", "resolved")) /\ pc # "gate"

\* A run is unsuccessful: its status is not Complete, or it is Complete and
\* its failed-count is greater than zero.
Unsuccessful(run) ==
    \/ run.result # "Complete"
    \/ run.result = "Complete" /\ run.failed # Undefined /\ run.failed[1] > 0

UnsuccessfulAt(results) == {i \in 1..Len(results) : Unsuccessful(results[i])}

\* out holds the entries of results at the indices of I, in their order.
IsSelection(out, results, I) ==
    /\ Len(out) = Cardinality(I)
    /\ \A i \in I : out[Cardinality({j \in I : j <= i})] = results[i]

StrictlyAscending(items) ==
    \A i \in 1..(Len(items) - 1) : StringLess(items[i], items[i + 1])

\* How often x occurs in items.
Occurrences(items, x) == Cardinality({i \in 1..Len(items) : items[i] = x})

\* The test names, and the error messages, of the unsuccessful runs with the
\* given status.
NamesOf(results, status) ==
    UNION {Elems(results[i].testNames) :
             i \in {j \in UnsuccessfulAt(results) : results[j].result = status}}
MessagesOf(results, status) ==
    UNION {Elems(results[i].errorMessages) :
             i \in {j \in UnsuccessfulAt(results) : results[j].result = status}}

Diagnostics(text) == SelectSeq(logged, LAMBDA e : e.level = "error" /\ e.text = text)

AbortedByGate == GateRan /\ outcome = Rejected(InitialRunFailed)

----------------------------------------------------------------------------
(* The claims *)

\* C1: for every list of baseline run results, filterOutUnsuccesfulResults
\* returns exactly the runs whose status is not Complete, or is Complete with
\* a failed-count greater than zero, in their original relative order; a list
\* of runs that are all Complete with zero failed yields the empty list.
C1_FilterExact ==
    GateRan =>
        /\ IsSelection(unsuccessfulTests, runResults, UnsuccessfulAt(runResults))
        /\ (\A i \in 1..Len(runResults) :
               runResults[i].result = "Complete"
               /\ runResults[i].failed \in {Undefined, Num(0)})
           => unsuccessfulTests = <<>>

\* A list of two runs of which the filter dropped the first, a clean run with
\* no failed-count, and kept the second, a Complete run with a failed test.
C1_Witness ==
    /\ GateRan
    /\ Len(runResults) = 2
    /\ runResults[1].result = "Complete" /\ runResults[1].failed = Undefined
    /\ runResults[2].result = "Complete" /\ runResults[2].failed = Num(1)
    /\ unsuccessfulTests = <<runResults[2]>>

\* C2: whenever the baseline run returned an unsuccessful run, no mutant is
\* generated, matched or run in any state of that run, and once the gate has
\* run the promise is rejected with the initial-run-failed error.
C2_GateAborts ==
    (InTrace(Ev("initialRun", "resolved")) /\ UnsuccessfulAt(runResults) # {}) =>
        /\ ~InTrace(Ev("generateMutants", "call"))
        /\ ~InTrace(Ev("matchWithMutants", "call"))
        /\ ~InTrace(Ev("runMutations", "call"))
        /\ mutants = <<>>
        /\ GateRan => outcome = Rejected(InitialRunFailed) /\ pc = "done"

\* The gate has run on a list with a clean and a timed-out run.
C2_Witness ==
    /\ AbortedByGate
    /\ Len(runResults) = 2
    /\ ~Unsuccessful(runResults[1])
    /\ runResults[2].result = "Timeout"

\* C3: when the gate fails, the error-message diagnostic lists the messages
\* of the unsuccessful Error runs deduplicated and sorted: every distinct
\* message exactly once, in ascending order, none of another run.
C3_ErrorsDeduplicated ==
    AbortedByGate =>
        /\ Len(Diagnostics(ErroredTestsText)) <= 1
        /\ \A k \in 1..Len(Diagnostics(ErroredTestsText)) :
              LET items == Diagnostics(ErroredTestsText)[k].items
              IN  /\ Elems(items) = MessagesOf(runResults, "Error")
                  /\ \A m \in Elems(items) : Occurrences(items, m) = 1
                  /\ StrictlyAscending(items)

\* C4: when the gate fails, the failed-tests diagnostic lists the test names
\* of the unsuccessful Complete runs deduplicated and sorted: every distinct
\* name exactly once, in ascending order, none of an Error or Timeout run.
C4_NamesDeduplicatedSorted ==
    AbortedByGate =>
        /\ Len(Diagnostics(FailedTestsText)) <= 1
        /\ NamesOf(runResults, "Complete") # {} => Len(Diagnostics(FailedTestsText)) = 1
        /\ \A k \in 1..Len(Diagnostics(FailedTestsText)) :
              LET items == Diagnostics(FailedTestsText)[k].items
              IN  /\ Elems(items) = NamesOf(runResults, "Complete")
                  /\ \A n \in Elems(items) : Occurrences(items, n) = 1
                  /\ StrictlyAscending(items)

\* Two failed Complete runs that both name "b" before "ab": the diagnostic
\* lists "ab", "b".
C4_Witness ==
    /\ AbortedByGate
    /\ Len(runResults) = 2
    /\ \A i \in 1..2 : runResults[i].result = "Complete"
                       /\ runResults[i].testNames = <<StrB, StrAB>>
    /\ Diagnostics(FailedTestsText) = <<LogEntry("error", FailedTestsText, <<StrAB, StrB>>)>>

\* C5: for every baseline result list with an unsuccessful run, logFailedTests
\* has emitted at least one diagnostic (failed test names or error messages)
\* when the initial-run-failed error is thrown.
C5_DiagnosticBeforeAbort ==
    AbortedByGate =>
        Len(Diagnostics(FailedTestsText)) + Len(Diagnostics(ErroredTestsText)) >= 1

\* e is in the trace, and before its first occurrence d has occurred.
Precedes(d, e) ==
    \A i \in 1..Len(trace) : trace[i] = e => \E j \in 1..(i - 1) : trace[j] = d

\* C6: the stages run strictly in sequence: resolve() has resolved before
\* initialRun is called, initialRun has resolved before generateMutants is
\* called, generateMutants has returned before matchWithMutants is called,
\* matchWithMutants has returned before runMutations is called, and
\* runMutations has resolved before reporter.wrapUp is called.
C6_StagesInSequence ==
    /\ Precedes(Ev("resolve", "call"), Ev("resolve", "resolved"))
    /\ Precedes(Ev("resolve", "resolved"), Ev("initialRun", "call"))
    /\ Precedes(Ev("initialRun", "resolved"), Ev("generateMutants", "call"))
    /\ Precedes(Ev("generateMutants", "return"), Ev("matchWithMutants", "call"))
    /\ Precedes(Ev("matchWithMutants", "return"), Ev("runMutations", "call"))
    /\ Precedes(Ev("runMutations", "resolved"), Ev("wrapUp", "call"))

\* A run through every stage, up to the settled wrap-up promise.
C6_Witness ==
    /\ outcome.state = "resolved"
    /\ InTrace(Ev("wrapUp", "resolved"))
    /\ Len(mutants) = MaxMutants

\* C7: while a promise returned by reporter.wrapUp is pending, the promise
\* of runMutationTest is pending too; when wrapUp returned something that is
\* no promise, the pipeline has resolved without waiting.
C7_WrapUpAwaited ==
    /\ wrapUpState = "pending" => outcome.state = "pending"
    /\ wrapUpState = "returned" => outcome.state = "resolved"
    /\ outcome.state = "resolved" => wrapUpState \in {"returned", "resolved"}

\* reporter.wrapUp returned a promise that has not settled.
C7_Witness ==
    /\ wrapUpState = "pending"
    /\ pc = "awaitWrapUp"
    /\ mutantResults # <<>>

\* C8: the result runMutationTest delivers is the sequence of mutant results
\* runMutations resolved with, nothing added, removed or reordered, on the
\* synchronous and on the asynchronous wrapUp path.
C8_ResultsUnchanged ==
    outcome.state = "resolved" =>
        /\ InTrace(Ev("runMutations", "resolved"))
        /\ outcome.value = mutantResults

\* The wrap-up promise resolved after runMutations delivered results.
C8_Witness ==
    /\ outcome.state = "resolved"
    /\ wrapUpState = "resolved"
    /\ Len(outcome.value) = MaxMutants

ConstructorOps == {"readConfig", "setGlobalLogLevel", "loadPlugins", "write", "freezeConfig"}

\* C9: in the constructor the plugins are loaded and every known config
\* writer writes, each once, before freezeConfig, which is the last step;
\* from then on the configuration is frozen and is what freezeConfig left.
C9_ConfigFrozen ==
    pc # "new" =>
        /\ config.frozen
        /\ config = frozenConfig
        /\ \A w \in WriterNames :
              config.written[w] = (IF w \in Elems(registry) THEN 1 ELSE 0)
        /\ \A w \in Elems(registry) :
              /\ Occurrences(trace, Ev("write", w)) = 1
              /\ Precedes(Ev("write", w), Ev("freezeConfig", "return"))
        /\ Precedes(Ev("loadPlugins", "return"), Ev("freezeConfig", "return"))
        /\ Occurrences(trace, Ev("freezeConfig", "return")) = 1
        /\ \A i, j \in 1..Len(trace) :
              (trace[i] = Ev("freezeConfig", "return") /\ i < j)
              => trace[j][1] \notin ConstructorOps

\* Two writers have written and runMutationTest has gone on to the baseline
\* run.
C9_Witness ==
    /\ pc = "initialRun"
    /\ Len(registry) = 2
    /\ config.frozen

PipelineStages == {"resolve", "initialRun", "generateMutants", "matchWithMutants",
                   "runMutations"}

PassedGate == GateRan /\ UnsuccessfulAt(runResults) = {}

\* C11: when the baseline run is clean the pipeline goes on to mutant
\* generation, and generateMutants is called with exactly the paths of the
\* resolved input files whose shouldMutate flag is true, in resolved order.
C11_GeneratorInput ==
    /\ PassedGate => InTrace(Ev("generateMutants", "call"))
    /\ InTrace(Ev("generateMutants", "call")) =>
          IsSelection(generatorInput,
                      [i \in 1..Len(inputFiles) |-> inputFiles[i].path],
                      {i \in 1..Len(inputFiles) : inputFiles[i].shouldMutate})

\* The generator was called for a test file followed by a file to mutate.
C11_Witness ==
    /\ InTrace(Ev("generateMutants", "call"))
    /\ inputFiles = <<InputFile("test/a.js", FALSE), InputFile("src/b.js", TRUE)>>
    /\ generatorInput = <<"src/b.js">>
    /\ Len(runResults) = MaxRuns


\* The statuses a mutant ends in (every status but Pending).
TerminalStatuses == {"Killed", "Survived", "TimedOut", "Error", "NoCoverage"}

\* C12: whenever runMutationTest resolves, the delivered result set holds,
\* for every mutant the generator produced, exactly one entry, and that entry
\* has a terminal (non-Pending) status.
C12_Completeness ==
    outcome.state = "resolved" =>
        /\ Len(outcome.value) = Len(mutants)
        /\ \A i \in 1..Len(mutants) :
              /\ Cardinality({k \in 1..Len(outcome.value) :
                                outcome.value[k].mutant = mutants[i].id}) = 1
              /\ \A k \in 1..Len(outcome.value) :
                    outcome.value[k].mutant = mutants[i].id
                    => outcome.value[k].status \in TerminalStatuses

\* The pipeline resolved with the results of two mutants, one killed and one
\* without coverage.
C12_Witness ==
    /\ outcome.state = "resolved"
    /\ Len(mutants) = 2
    /\ outcome.value[1].status = "Killed"
    /\ outcome.value[2].status = "NoCoverage"


\* The sum of the succeeded counts of the first n runs; a run with no
\* succeeded count adds 0.
RECURSIVE SucceededOfFirst(_, _)
SucceededOfFirst(results, n) ==
    IF n = 0 THEN 0
    ELSE SucceededOfFirst(results, n - 1)
         + (IF results[n].succeeded = Undefined THEN 0 ELSE results[n].succeeded[1])

SucceededEntries == SelectSeq(logged, LAMBDA e : e.text = SucceededText)

\* C13: when all baseline runs are successful the gate logs, once, the sum of
\* the succeeded counts of all runs; it logs no such total on any other path;
\* and the matcher is handed the full, unfiltered list of run results.
C13_SucceededTotal ==
    /\ PassedGate =>
          SucceededEntries =
              <<LogEntry("info", SucceededText,
                         <<SucceededOfFirst(runResults, Len(runResults))>>)>>
    /\ ~PassedGate => SucceededEntries = <<>>
    /\ InTrace(Ev("generateMutants", "return")) => InTrace(Ev("matchWithMutants", "call"))
    /\ InTrace(Ev("matchWithMutants", "call")) => matcherInput = runResults

\* A clean list of two runs with a succeeded count of 2 each, taken through
\* to the matcher.
C13_Witness ==
    /\ PassedGate
    /\ InTrace(Ev("matchWithMutants", "return"))
    /\ Len(runResults) = 2
    /\ runResults[1].succeeded = Num(2) /\ runResults[2].succeeded = Num(2)
    /\ SucceededEntries[1].items = <<4>>
    /\ matcherInput = runResults


StageCalls == {Ev(op, "call") : op \in PipelineStages \cup {"wrapUp"}}

\* C14: within one runMutationTest every collaborator stage is entered at
\* most once, and once resolve() has resolved and its callback has run,
\* initialRun has been called exactly once.
C14_StagesOnce ==
    /\ \A call \in StageCalls : Occurrences(trace, call) <= 1
    /\ (InTrace(Ev("resolve", "resolved")) /\ pc # "resolved")
       => Occurrences(trace, Ev("initialRun", "call")) = 1

\* A run that went through every stage and ended with a synchronous wrapUp.
C14_Witness ==
    /\ outcome.state = "resolved"
    /\ wrapUpState = "returned"
    /\ \A call \in StageCalls : Occurrences(trace, call) = 1


WrapUpFailed == InTrace(Ev("wrapUp", "threw")) \/ InTrace(Ev("wrapUp", "rejected"))

\* C15: when reporter.wrapUp throws or its promise rejects, the promise of
\* runMutationTest is rejected with that failure; this happens only after
\* runMutations resolved; and once runMutations has resolved no step changes
\* the result set it resolved with.
C15_WrapUpFailureSurfaced ==
    /\ [](WrapUpFailed =>
            /\ outcome = Rejected("wrapUp")
            /\ InTrace(Ev("runMutations", "resolved")))
    /\ [][InTrace(Ev("runMutations", "resolved")) => mutantResults' = mutantResults]_vars

\* The wrap-up promise rejected after two mutant results were delivered.
C15_Witness ==
    /\ InTrace(Ev("wrapUp", "rejected"))
    /\ outcome.state = "rejected"
    /\ Len(mutantResults) = 2


\* C16: the core never changes a baseline run result: from the moment
\* initialRun resolved, no step (the filter, the logging of the total, the
\* sorts of logFailedTests) changes the status, the testNames, the
\* errorMessages or the counts of any run result, and the matcher is handed
\* the run results as the test runner returned them.
C16_RunResultsUntouched ==
    /\ [][InTrace(Ev("initialRun", "resolved")) => runResults' = runResults]_vars
    /\ [](InTrace(Ev("matchWithMutants", "call")) => matcherInput = runResults)

\* logFailedTests has listed "ab", "b" for a run whose testNames still read
\* "b", "ab".
C16_Witness ==
    /\ AbortedByGate
    /\ Len(runResults) = 1
    /\ runResults[1].testNames = <<StrB, StrAB>>
    /\ Len(logged) > 0
    /\ logged[Len(logged)].items = <<StrAB, StrB>>


StageFaulted ==
    \E i \in 1..Len(trace) :
        trace[i][1] \in PipelineStages /\ trace[i][2] \in {"threw", "rejected"}

\* C17: reporter.wrapUp is called if and only if runMutations resolved: it
\* has been called once the callback after runMutations ran, and it is never
\* called when the gate aborted or a stage before it faulted.
C17_WrapUpIffResolved ==
    /\ InTrace(Ev("wrapUp", "call")) => InTrace(Ev("runMutations", "resolved"))
    /\ (InTrace(Ev("runMutations", "resolved")) /\ pc # "wrapUp")
       => InTrace(Ev("wrapUp", "call"))
    /\ (AbortedByGate \/ StageFaulted)
       => ~InTrace(Ev("wrapUp", "call")) /\ wrapUpState = "notCalled"

\* runMutations rejected for two mutants and the reporter was left alone.
C17_Witness ==
    /\ InTrace(Ev("runMutations", "rejected"))
    /\ Len(mutants) = 2
    /\ pc = "done"
    /\ wrapUpState = "notCalled"

\* The two outcomes of the gate.
SuccessPath == SucceededEntries # <<>> /\ InTrace(Ev("generateMutants", "call"))
FailurePath == outcome = Rejected(InitialRunFailed)

\* C18: for every baseline result list exactly one of the two outcomes of
\* the gate happens: the success message is logged and mutant generation
\* starts, or the initial-run-failed error is thrown, with no success message
\* and no generation; an empty list takes the success path with a total of 0.
C18_GateOutcomes ==
    /\ GateRan => (SuccessPath /\ ~FailurePath) \/ (FailurePath /\ ~SuccessPath)
    /\ (GateRan /\ FailurePath)
       => SucceededEntries = <<>> /\ ~InTrace(Ev("generateMutants", "call"))
    /\ (GateRan /\ SuccessPath)
       => Diagnostics(FailedTestsText) = <<>> /\ Diagnostics(ErroredTestsText) = <<>>
    /\ ~GateRan => ~SuccessPath /\ ~FailurePath
    /\ (GateRan /\ runResults = <<>>)
       => SuccessPath /\ SucceededEntries[1].items = <<0>>

\* The gate has run on the empty list.
C18_Witness ==
    /\ GateRan
    /\ runResults = <<>>
    /\ SuccessPath
    /\ pc = "runMutations"

====
